---- MODULE Spec2Model ----
(***************************************************************************)
(* Model of src/python/tinkoff_service.py: one process invocation of the   *)
(* command-line wrapper around the Tinkoff Invest client.                  *)
(*                                                                         *)
(* The process is sequential.  pc is its position; one action is one       *)
(* stretch of code between two remote calls (the remote call, the local    *)
(* computation that follows it up to the next call, and the exception      *)
(* handling if the call raises).  The remote service is the environment:   *)
(* every remote call draws its outcome (a value, a null result, or an      *)
(* exception with a message) from a small set.                             *)
(*                                                                         *)
(* Python floats are modelled as exact decimal values [units, nano] with   *)
(* 0 <= nano < NanoPerUnit; float rounding is not modelled.                *)
(***************************************************************************)
EXTENDS Integers, Sequences, FiniteSets, TLC

(***************************************************************************)
(* Bounds of the model.                                                    *)
(***************************************************************************)
MaxPositions == 2
MaxBalance == 1
MaxAccounts == 1

(***************************************************************************)
(* Values.                                                                 *)
(***************************************************************************)
\* Python's None.
None == [null |-> TRUE]

\* 1e9 of _money_value_to_float.
NanoPerUnit == 1000000000

\* 0.0
Zero == [units |-> 0, nano |-> 0]

\* a + b on floats.
FAdd(a, b) ==
    LET n == a.nano + b.nano
    IN  [units |-> a.units + b.units + (n \div NanoPerUnit),
         nano  |-> n % NanoPerUnit]

\* q * v for the float q = float(balance) of a positive integer balance.
RECURSIVE FMul(_, _)
FMul(q, v) == IF q <= 0 THEN Zero ELSE FAdd(FMul(q - 1, v), v)

\* getattr(obj, field, 0) or 0
GetAttrOrZero(obj, field) ==
    IF field \in DOMAIN obj THEN obj[field] ELSE 0

_money_value_to_float(money_value) ==
    IF money_value = None
    THEN Zero
    ELSE FAdd([units |-> GetAttrOrZero(money_value, "units"), nano |-> 0],
              [units |-> 0, nano |-> GetAttrOrZero(money_value, "nano")])

(***************************************************************************)
(* The inputs of the process.                                              *)
(***************************************************************************)
KnownCommands ==
    {"get_portfolio", "get_accounts", "search_instruments",
     "create_demo_account", "get_current_price"}

\* sys.argv: the program name, then possibly a command name.
Argvs ==
    {<<"tinkoff_service.py">>}
    \cup {<<"tinkoff_service.py", c>> : c \in KnownCommands \cup {"buy", "GET_PORTFOLIO"}}

\* Contents of standard input.
StdinTexts ==
    {"", "not json", "{}",
     "{\"token\": \"t\", \"use_sandbox\": true, \"query\": \"SBER\", \"figi\": \"F1\"}",
     "[]", "null", "42"}

\* json.loads(raw): [ok |-> FALSE] when raw is no JSON document, else the type
\* of the Python value and, for a dict, its items.
json_loads(raw) ==
    CASE raw = "{}" -> [ok |-> TRUE, type |-> "dict", value |-> <<>>]
      [] raw = "{\"token\": \"t\", \"use_sandbox\": true, \"query\": \"SBER\", \"figi\": \"F1\"}" ->
            [ok |-> TRUE, type |-> "dict",
             value |-> [token |-> "t", use_sandbox |-> TRUE, query |-> "SBER", figi |-> "F1"]]
      [] raw = "[]" -> [ok |-> TRUE, type |-> "list", value |-> <<>>]
      [] raw = "null" -> [ok |-> TRUE, type |-> "NoneType", value |-> <<>>]
      [] raw = "42" -> [ok |-> TRUE, type |-> "int", value |-> <<>>]
      [] OTHER -> [ok |-> FALSE]

\* The empty dict {}.
EmptyDict == [type |-> "dict", value |-> <<>>]

\* data = json.loads(raw) if raw else {}, and {} when json.loads raises.
ParseInput(raw) ==
    IF raw = "" THEN EmptyDict
    ELSE LET r == json_loads(raw)
         IN  IF r.ok THEN [type |-> r.type, value |-> r.value] ELSE EmptyDict

\* data.get(key, default) on a dict.
DictGet(d, key, default) ==
    IF key \in DOMAIN d.value THEN d.value[key] ELSE default

(***************************************************************************)
(* The remote service.                                                     *)
(***************************************************************************)
\* str(e) of the exceptions a remote call can raise.
ExcMsgs == {"", "UNAVAILABLE"}

Figis == {"F1", "F2"}

\* The i-th account of the user, in the order the service returns them; the
\* first has an opening date, the others have none.
AccountObj(i) ==
    [id |-> "A" \o ToString(i), type |-> i, name |-> "Account " \o ToString(i),
     status |-> 2,
     opened_date |-> IF i = 1 THEN [isoformat |-> "2020-01-02T00:00:00"] ELSE None]

\* Sequences over S of length at most n.
SeqsUpTo(S, n) == UNION {[1..k -> S] : k \in 0..n}

\* The account lists the service can return.
AccountLists == {[i \in 1..k |-> AccountObj(i)] : k \in 0..MaxAccounts}

PositionObjs == [figi : Figis, balance : -1..MaxBalance]

PositionLists == SeqsUpTo(PositionObjs, MaxPositions)

\* The instrument the service knows for a figi.
InstrumentOf(figi) ==
    IF figi = "F1" THEN [ticker |-> "SBER", name |-> "Sberbank"]
    ELSE [ticker |-> "GAZP", name |-> "Gazprom"]

\* Outcomes of share_by / bond_by / etf_by: an exception, a response without
\* an instrument, or the instrument.
InstrumentOutcomes(figi) ==
    {[kind |-> "raise"], [kind |-> "null"]}
    \cup {[kind |-> "ok", instrument |-> InstrumentOf(figi)]}

\* The price field of a LastPrice.
Quotations ==
    {None, [units |-> 0, nano |-> 0], [units |-> 1, nano |-> 500000000]}

\* Outcomes of get_last_prices: an exception, a null response, an empty
\* last_prices list, or a list whose first element has the given price.
LastPriceOutcomes ==
    {[kind |-> "null"], [kind |-> "empty"]}
    \cup {[kind |-> "raise", msg |-> m] : m \in ExcMsgs}
    \cup {[kind |-> "ok", price |-> q] : q \in Quotations}

VARIABLES
    argv,             \* sys.argv
    stdin,            \* unread contents of standard input
    data,             \* main: the parsed request
    pc,               \* position in the program
    result,           \* the dict returned by the operation
    stdout,           \* the JSON documents printed so far
    exitCode,         \* Running, then the process exit status
    conn,             \* the Client: "none", "open" or "closed"
    target,           \* the endpoint the Client was created for
    opens,            \* number of connections opened
    ncalls,           \* number of remote calls made
    raised,           \* TRUE once a remote call has raised
    exc,              \* the exception caught by the operation's handler
    account_id,       \* get_portfolio / create_demo_account local
    accounts_empty,   \* get_portfolio: the fetched account list was empty
    positions,        \* get_portfolio: positions_response
    idx,              \* get_portfolio: index of the next position of the loop
    instrument_info,  \* get_portfolio locals of the current position
    instrument_type,
    ticker,
    name,
    lookups,          \* outcomes of the remote calls made for the current position
    items_before,     \* portfolio_items when the current position was begun
    portfolio_items,
    total_value

vars ==
    <<argv, stdin, data, pc, result, stdout, exitCode, conn, target, opens, ncalls,
      raised, exc, account_id, accounts_empty, positions, idx, instrument_info,
      instrument_type, ticker, name, lookups, items_before, portfolio_items,
      total_value>>

mainVars == <<argv, stdin, data>>
outVars == <<stdout, exitCode>>
posVars == <<instrument_info, instrument_type, ticker, name, lookups, items_before>>
loopVars == <<accounts_empty, positions, idx, portfolio_items, total_value>>

Command == argv[2]

\* exitCode while the process runs.
Running == -1

\* positions_response before get_positions has returned.
NotFetched == [fetched |-> FALSE, securities |-> <<>>]

Init ==
    /\ argv \in Argvs
    /\ stdin \in StdinTexts
    /\ data = None
    /\ pc = "start"
    /\ result = None
    /\ stdout = <<>>
    /\ exitCode = Running
    /\ conn = "none"
    /\ target = ""
    /\ opens = 0
    /\ ncalls = 0
    /\ raised = FALSE
    /\ exc = None
    /\ account_id = ""
    /\ accounts_empty = FALSE
    /\ positions = NotFetched
    /\ idx = 1
    /\ instrument_info = None
    /\ instrument_type = "OTHER"
    /\ ticker = ""
    /\ name = ""
    /\ lookups = <<>>
    /\ items_before = <<>>
    /\ portfolio_items = <<>>
    /\ total_value = Zero


(***************************************************************************)
(* main                                                                    *)
(***************************************************************************)
\* main, len(sys.argv) < 2.
NoCommand ==
    /\ pc = "start"
    /\ Len(argv) < 2
    /\ stdout' = Append(stdout, [success |-> FALSE, error |-> "Command is required"])
    /\ exitCode' = 0
    /\ pc' = "done"
    /\ UNCHANGED <<mainVars, result, conn, target, opens, ncalls, raised, exc,
                   account_id, loopVars, posVars>>

\* main: read and parse standard input, then data.get("token").  Only
\* json.loads is inside the try; data.get on a value that is no dict raises
\* AttributeError, which nothing catches: traceback, exit status 1.
ReadInput ==
    /\ pc = "start"
    /\ Len(argv) >= 2
    /\ stdin' = ""
    /\ LET parsed == ParseInput(stdin)
       IN  IF parsed.type = "dict"
           THEN /\ data' = parsed
                /\ pc' = "dispatch"
                /\ exitCode' = exitCode
           ELSE /\ data' = parsed
                /\ pc' = "crashed"
                /\ exitCode' = 1
    /\ UNCHANGED <<argv, result, stdout, conn, target, opens, ncalls, raised, exc,
                   account_id, loopVars, posVars>>

\* main: the final else branch.
DispatchUnknown ==
    /\ pc = "dispatch"
    /\ Command \notin KnownCommands
    /\ stdout' = Append(stdout, [success |-> FALSE,
                                 error |-> "Unknown command: " \o Command])
    /\ exitCode' = 0
    /\ pc' = "done"
    /\ UNCHANGED <<mainVars, result, conn, target, opens, ncalls, raised, exc,
                   account_id, loopVars, posVars>>

\* main: one of the five branches calls its operation.
DispatchKnown ==
    /\ pc = "dispatch"
    /\ Command \in KnownCommands
    /\ pc' = "connect"
    /\ UNCHANGED <<mainVars, result, outVars, conn, target, opens, ncalls, raised,
                   exc, account_id, loopVars, posVars>>

\* main: print(json.dumps(result)) and return.
PrintResult ==
    /\ pc = "print"
    /\ stdout' = Append(stdout, result)
    /\ exitCode' = 0
    /\ pc' = "done"
    /\ UNCHANGED <<mainVars, result, conn, target, opens, ncalls, raised, exc,
                   account_id, loopVars, posVars>>

(***************************************************************************)
(* The scoped connection and the operations' exception handlers            *)
(***************************************************************************)
\* Client.__exit__ at the end of the with block, on return and on exception.
ClientExit_Leak(c) == c

ClientExit(c) == IF c = "open" THEN "closed" ELSE c

\* The dict an operation returns from its except clause.
ExceptResult_NoMessage(op, msg) ==
    [success |-> FALSE, error |-> "error"]

ExceptResult(op, msg) ==
    CASE op = "get_accounts" -> [success |-> FALSE, accounts |-> <<>>, error |-> msg]
      [] op = "search_instruments" -> [success |-> FALSE, instruments |-> <<>>, error |-> msg]
      [] OTHER -> [success |-> FALSE, error |-> msg]

\* An exception with message msg leaves the with block and reaches the
\* operation's except clause.
Caught(msg) ==
    /\ conn' = ClientExit(conn)
    /\ exc' = [msg |-> msg]
    /\ result' = ExceptResult(Command, msg)
    /\ pc' = "print"

\* The operation returns r from inside the with block.
Return(r) ==
    /\ conn' = ClientExit(conn)
    /\ result' = r
    /\ pc' = "print"
    /\ exc' = exc

\* target = INVEST_GRPC_API_SANDBOX if use_sandbox else INVEST_GRPC_API
TargetOf(op, d) ==
    IF op = "create_demo_account" \/ DictGet(d, "use_sandbox", FALSE)
    THEN "INVEST_GRPC_API_SANDBOX"
    ELSE "INVEST_GRPC_API"

\* The first remote call of each operation.
FirstCall(op) ==
    CASE op \in {"get_portfolio", "get_accounts"} -> "accounts"
      [] op = "search_instruments" -> "find"
      [] op = "create_demo_account" -> "open_sandbox"
      [] op = "get_current_price" -> "last_price"

\* with Client(token, target=target) as client: the channel is opened, or
\* creating it raises.
Connect ==
    /\ pc = "connect"
    /\ target' = TargetOf(Command, data)
    /\ \/ /\ conn' = "open"
          /\ opens' = opens + 1
          /\ pc' = FirstCall(Command)
          /\ UNCHANGED <<result, exc>>
       \/ \E m \in ExcMsgs :
             /\ Caught(m)
             /\ opens' = opens
    /\ UNCHANGED <<mainVars, outVars, ncalls, raised, account_id, loopVars, posVars>>


(***************************************************************************)
(* get_portfolio                                                           *)
(***************************************************************************)
\* The dict returned when the account list is empty.
EmptyPortfolioResult_WithAccount ==
    [success |-> TRUE, account_id |-> "", portfolio |-> <<>>, total_value |-> Zero,
     total_cost |-> Zero, total_pnl |-> Zero, total_pnl_percent |-> Zero]

EmptyPortfolioResult ==
    [success |-> TRUE, accounts |-> <<>>, portfolio |-> <<>>, total_value |-> Zero,
     total_cost |-> Zero, total_pnl |-> Zero, total_pnl_percent |-> Zero]

\* The dict returned after the loop over the positions.
PortfolioResult(acc, items, total) ==
    [success |-> TRUE, account_id |-> acc, portfolio |-> items,
     total_value |-> total, total_cost |-> Zero, total_pnl |-> Zero,
     total_pnl_percent |-> Zero]

\* if position.balance <= 0: continue
Skipped_ZeroKept(position) == position.balance < 0

Skipped(position) == position.balance <= 0

\* ticker = position.figi, the default before classification.
DefaultTicker_Blank(position) == "Unknown"

DefaultTicker(position) == position.figi

\* if not instrument_info: whether the next kind of instrument is looked up.
NeedsNext_Always(info) == TRUE

NeedsNext(info) == info = None

\* current_price after the get_last_prices try block.
CurrentPrice_Stale(out) ==
    IF out.kind = "ok" THEN _money_value_to_float(out.price)
    ELSE IF out.kind = "raise" THEN [units |-> 1, nano |-> 0] ELSE Zero

CurrentPrice(out) ==
    IF out.kind = "ok" THEN _money_value_to_float(out.price) ELSE Zero

\* total_value += total_item_value
Accumulate_Overwrite(total, v) == v

Accumulate(total, v) == FAdd(total, v)

\* The dict appended to portfolio_items.
PortfolioItem(position, tick, nm, type, current_price) ==
    [figi |-> position.figi, ticker |-> tick, name |-> nm, type |-> type,
     quantity |-> position.balance, average_price |-> Zero,
     current_price |-> current_price, total_cost |-> Zero,
     current_value |-> FMul(position.balance, current_price),
     pnl |-> Zero, pnl_percent |-> Zero]

\* client.users.get_accounts() and the early return on an empty list.
PortfolioGetAccounts ==
    /\ pc = "accounts"
    /\ Command = "get_portfolio"
    /\ ncalls' = ncalls + 1
    /\ \/ \E m \in ExcMsgs :
             /\ Caught(m)
             /\ raised' = TRUE
             /\ UNCHANGED <<account_id, accounts_empty>>
       \/ \E accounts \in AccountLists :
             /\ raised' = raised
             /\ accounts_empty' = (accounts = <<>>)
             /\ IF accounts = <<>>
                THEN /\ Return(EmptyPortfolioResult)
                     /\ account_id' = account_id
                ELSE /\ account_id' = accounts[1].id
                     /\ pc' = "positions"
                     /\ UNCHANGED <<result, conn, exc>>
    /\ UNCHANGED <<mainVars, outVars, target, opens, positions, idx,
                   portfolio_items, total_value, posVars>>

\* client.operations.get_positions(account_id=account_id), then the
\* initialisation of portfolio_items and the totals.
GetPositions ==
    /\ pc = "positions"
    /\ ncalls' = ncalls + 1
    /\ \/ \E m \in ExcMsgs :
             /\ Caught(m)
             /\ raised' = TRUE
             /\ UNCHANGED loopVars
       \/ \E securities \in PositionLists :
             /\ positions' = [fetched |-> TRUE, securities |-> securities]
             /\ portfolio_items' = <<>>
             /\ total_value' = Zero
             /\ idx' = 1
             /\ accounts_empty' = accounts_empty
             /\ pc' = "loop"
             /\ UNCHANGED <<result, conn, exc, raised>>
    /\ UNCHANGED <<mainVars, outVars, target, opens, account_id, posVars>>

\* The for loop is exhausted: return the assembled dict.
ReturnPortfolio ==
    /\ pc = "loop"
    /\ idx > Len(positions.securities)
    /\ Return(PortfolioResult(account_id, portfolio_items, total_value))
    /\ UNCHANGED <<mainVars, outVars, target, opens, ncalls, raised, account_id,
                   loopVars, posVars>>

\* The loop's next position has balance <= 0: continue.
SkipPosition ==
    /\ pc = "loop"
    /\ idx <= Len(positions.securities)
    /\ Skipped(positions.securities[idx])
    /\ idx' = idx + 1
    /\ UNCHANGED <<mainVars, outVars, result, pc, conn, target, opens, ncalls,
                   raised, exc, account_id, accounts_empty, positions,
                   portfolio_items, total_value, posVars>>

\* The loop's next position is held: set the defaults of its item.
BeginPosition ==
    /\ pc = "loop"
    /\ idx <= Len(positions.securities)
    /\ ~Skipped(positions.securities[idx])
    /\ instrument_info' = None
    /\ instrument_type' = "OTHER"
    /\ ticker' = DefaultTicker(positions.securities[idx])
    /\ name' = "Unknown"
    /\ lookups' = <<>>
    /\ items_before' = portfolio_items
    /\ pc' = "share"
    /\ UNCHANGED <<mainVars, outVars, result, conn, target, opens, ncalls, raised,
                   exc, account_id, loopVars>>

\* One of the three try blocks: the lookup call, then on a non-null
\* instrument the assignments, then the test that guards the next block.
InstrumentLookup(call, type, nextPc) ==
    /\ ncalls' = ncalls + 1
    /\ \E out \in InstrumentOutcomes(positions.securities[idx].figi) :
          /\ lookups' = Append(lookups, [call |-> call, kind |-> out.kind])
          /\ raised' = (raised \/ out.kind = "raise")
          /\ IF out.kind = "ok"
             THEN /\ instrument_info' = out.instrument
                  /\ ticker' = out.instrument.ticker
                  /\ name' = out.instrument.name
                  /\ instrument_type' = type
             ELSE UNCHANGED <<instrument_info, ticker, name, instrument_type>>
    /\ pc' = IF NeedsNext(instrument_info') THEN nextPc ELSE "price"
    /\ UNCHANGED <<mainVars, outVars, result, conn, target, opens, exc, account_id,
                   loopVars, items_before>>

ShareBy ==
    /\ pc = "share"
    /\ InstrumentLookup("share_by", "STOCK", "bond")

BondBy ==
    /\ pc = "bond"
    /\ InstrumentLookup("bond_by", "BOND", "etf")

EtfBy ==
    /\ pc = "etf"
    /\ InstrumentLookup("etf_by", "ETF", "price")

\* client.market_data.get_last_prices(figi=[position.figi]), then the item
\* is valued, added to the total and appended.
LastPrice ==
    /\ pc = "price"
    /\ ncalls' = ncalls + 1
    /\ \E out \in LastPriceOutcomes :
          LET position == positions.securities[idx]
              item == PortfolioItem(position, ticker, name, instrument_type,
                                    CurrentPrice(out))
          IN  /\ lookups' = Append(lookups, [call |-> "get_last_prices", kind |-> out.kind])
              /\ raised' = (raised \/ out.kind = "raise")
              /\ total_value' = Accumulate(total_value, item.current_value)
              /\ portfolio_items' = Append(portfolio_items, item)
    /\ idx' = idx + 1
    /\ pc' = "loop"
    /\ UNCHANGED <<mainVars, outVars, result, conn, target, opens, exc, account_id,
                   accounts_empty, positions, instrument_info, instrument_type,
                   ticker, name, items_before>>


(***************************************************************************)
(* get_accounts, search_instruments, create_demo_account, get_current_price*)
(***************************************************************************)
\* str(x) of an enum value.
Str(x) == [str |-> x]

\* The dict get_accounts builds for one account.
AccountJson(acc) ==
    [id |-> acc.id, type |-> Str(acc.type), name |-> acc.name,
     status |-> Str(acc.status), opened_date |-> acc.opened_date]

\* client.users.get_accounts() of get_accounts and the reshaping loop.
AccountsGetAccounts ==
    /\ pc = "accounts"
    /\ Command = "get_accounts"
    /\ ncalls' = ncalls + 1
    /\ \/ \E m \in ExcMsgs :
             /\ Caught(m)
             /\ raised' = TRUE
       \/ \E accounts \in AccountLists :
             /\ Return([success |-> TRUE,
                        accounts |-> [i \in DOMAIN accounts |-> AccountJson(accounts[i])]])
             /\ raised' = raised
    /\ UNCHANGED <<mainVars, outVars, target, opens, account_id, loopVars, posVars>>

\* What find_instrument can return.
InstrumentShorts ==
    {[figi |-> f, ticker |-> InstrumentOf(f).ticker, name |-> InstrumentOf(f).name,
      instrument_type |-> "share", currency |-> "rub"] : f \in Figis}

FoundLists == SeqsUpTo(InstrumentShorts, 1)

\* The dict search_instruments builds for one instrument.
InstrumentJson(i) ==
    [figi |-> i.figi, ticker |-> i.ticker, name |-> i.name,
     type |-> Str(i.instrument_type), currency |-> Str(i.currency)]

\* client.instruments.find_instrument(query=query) and the reshaping loop.
FindInstrument ==
    /\ pc = "find"
    /\ ncalls' = ncalls + 1
    /\ \/ \E m \in ExcMsgs :
             /\ Caught(m)
             /\ raised' = TRUE
       \/ \E found \in FoundLists :
             /\ Return([success |-> TRUE,
                        instruments |-> [i \in DOMAIN found |-> InstrumentJson(found[i])]])
             /\ raised' = raised
    /\ UNCHANGED <<mainVars, outVars, target, opens, account_id, loopVars, posVars>>

\* client.sandbox.open_sandbox_account()
OpenSandboxAccount ==
    /\ pc = "open_sandbox"
    /\ ncalls' = ncalls + 1
    /\ \/ \E m \in ExcMsgs :
             /\ Caught(m)
             /\ raised' = TRUE
             /\ account_id' = account_id
       \/ /\ account_id' = "S1"
          /\ pc' = "pay_in"
          /\ UNCHANGED <<result, conn, exc, raised>>
    /\ UNCHANGED <<mainVars, outVars, target, opens, loopVars, posVars>>

\* client.sandbox.sandbox_pay_in(...) and the success dict.
SandboxPayIn ==
    /\ pc = "pay_in"
    /\ ncalls' = ncalls + 1
    /\ \/ \E m \in ExcMsgs :
             /\ Caught(m)
             /\ raised' = TRUE
       \/ /\ Return([success |-> TRUE, account_id |-> account_id,
                     balance |-> [units |-> 1000000, nano |-> 0, currency |-> "rub"]])
          /\ raised' = raised
    /\ UNCHANGED <<mainVars, outVars, target, opens, account_id, loopVars, posVars>>

\* client.market_data.get_last_prices(figi=[figi]) of get_current_price.  A
\* null response makes last_prices.last_prices raise AttributeError inside
\* the try block.
CurrentPriceLastPrices ==
    /\ pc = "last_price"
    /\ ncalls' = ncalls + 1
    /\ \E out \in LastPriceOutcomes :
          CASE out.kind = "raise" ->
                  /\ Caught(out.msg)
                  /\ raised' = TRUE
            [] out.kind = "null" ->
                  /\ Caught("'NoneType' object has no attribute 'last_prices'")
                  /\ raised' = raised
            [] out.kind = "empty" ->
                  /\ Return([success |-> FALSE, error |-> "No price data"])
                  /\ raised' = raised
            [] out.kind = "ok" ->
                  /\ Return([success |-> TRUE, price |-> _money_value_to_float(out.price),
                             currency |-> "RUB"])
                  /\ raised' = raised
    /\ UNCHANGED <<mainVars, outVars, target, opens, account_id, loopVars, posVars>>

(***************************************************************************)
(* The process                                                             *)
(***************************************************************************)
Next ==
    \/ NoCommand
    \/ ReadInput
    \/ DispatchUnknown
    \/ DispatchKnown
    \/ Connect
    \/ PortfolioGetAccounts
    \/ GetPositions
    \/ SkipPosition
    \/ BeginPosition
    \/ ShareBy
    \/ BondBy
    \/ EtfBy
    \/ LastPrice
    \/ ReturnPortfolio
    \/ AccountsGetAccounts
    \/ FindInstrument
    \/ OpenSandboxAccount
    \/ SandboxPayIn
    \/ CurrentPriceLastPrices
    \/ PrintResult

Spec == Init /\ [][Next]_vars

\* The process has ended.
Finished == pc \in {"done", "crashed"}

TypeOK ==
    /\ pc \in {"start", "dispatch", "connect", "accounts", "positions", "loop",
               "share", "bond", "etf", "price", "find", "open_sandbox", "pay_in",
               "last_price", "print", "done", "crashed"}
    /\ conn \in {"none", "open", "closed"}
    /\ exitCode \in {Running, 0, 1}


(***************************************************************************)
(* Properties                                                              *)
(***************************************************************************)
\* A command name was supplied in argv[1].
HasCommand == Len(argv) >= 2

\* The command of the invocation is one of the five operations.
IsOperation == HasCommand /\ Command \in KnownCommands

IsPortfolio == HasCommand /\ Command = "get_portfolio"

\* C1: every invocation that supplies a command name, whatever standard
\* input holds, ends having written exactly one JSON document to standard
\* output and with exit status 0.
C1_OneDocumentAndSuccessExit ==
    /\ Len(stdout) <= 1
    /\ (Finished /\ HasCommand) => (Len(stdout) = 1 /\ exitCode = 0)

\* C2: a command that is none of the five operations is answered with
\* {success: false, error: "Unknown command: <name>"} whatever standard
\* input holds, and no connection is opened.
C2_UnknownCommandReported ==
    (Finished /\ HasCommand /\ Command \notin KnownCommands) =>
        /\ stdout = <<[success |-> FALSE, error |-> "Unknown command: " \o Command]>>
        /\ opens = 0

\* C3 as stated: once any remote call of an operation has raised, the
\* process ends with a response whose success is false and whose error
\* string is non-empty.
C3_AnyRaiseYieldsFailure ==
    (Finished /\ IsOperation /\ raised) =>
        /\ pc = "done"
        /\ Len(stdout) = 1
        /\ stdout[1].success = FALSE
        /\ stdout[1].error # ""

\* C3 amended: an exception raised by opening the connection or by a remote
\* call, other than the per-position lookups of get_portfolio, reaches the
\* operation's handler; the process then ends normally with one response
\* whose success is false and whose error is the exception's string form
\* (empty exactly when the exception carries no message).  Exceptions of the
\* per-position lookups of get_portfolio are absorbed once the position list
\* is fetched.
C3_PropagatedRaiseYieldsFailure ==
    /\ exc # None => pc \in {"print", "done"} /\ result.success = FALSE
    /\ (raised /\ ~positions.fetched) => exc # None
    /\ (raised /\ positions.fetched) => (exc = None /\ IsPortfolio)
    /\ (pc = "done" /\ exc # None) =>
          /\ IsOperation
          /\ exitCode = 0
          /\ Len(stdout) = 1
          /\ stdout[1].success = FALSE
          /\ stdout[1].error = exc.msg
          /\ (stdout[1].error = "") = (exc.msg = "")

\* C3 witness: get_accounts has raised in get_portfolio and the failure
\* response is on standard output.
C3_Witness ==
    /\ pc = "done"
    /\ IsPortfolio
    /\ raised
    /\ exc = [msg |-> "UNAVAILABLE"]
    /\ stdout = <<[success |-> FALSE, error |-> "UNAVAILABLE"]>>

\* The positions of the program at which the next step is a remote call, or
\* the loop of get_portfolio between two positions.
InsideWith ==
    pc \in {"accounts", "positions", "loop", "share", "bond", "etf", "price",
            "find", "open_sandbox", "pay_in", "last_price"}

\* C10: at most one connection is opened; every remote call is made while
\* it is open; it is released before the response is written, on every path.
C10_ScopedConnection ==
    /\ opens <= 1
    /\ InsideWith => (conn = "open" /\ opens = 1)
    /\ ncalls > 0 => opens = 1
    /\ pc \in {"print", "done"} => conn # "open"
    /\ stdout # <<>> => conn # "open"
    /\ (pc = "done" /\ opens = 1) => conn = "closed"

\* C10 witness: the early return of get_current_price (no price data) has
\* been printed after one remote call and the connection is closed.
C10_Witness ==
    /\ pc = "done"
    /\ HasCommand /\ Command = "get_current_price"
    /\ stdout = <<[success |-> FALSE, error |-> "No price data"]>>
    /\ ncalls = 1
    /\ opens = 1
    /\ conn = "closed"


\* The positions of a list that are held (balance > 0), in list order.
Held(securities) == SelectSeq(securities, LAMBDA p : p.balance > 0)

\* The last position has been valued and its item appended; lookups holds
\* the outcomes of the remote calls made for it.
ItemDone == pc \in {"loop", "print", "done"} /\ lookups # <<>>

\* The instrument-type lookups among the calls made for a position.
TypeLookups(l) == SelectSeq(l, LAMBDA c : c.call # "get_last_prices")

\* The response get_portfolio printed.
Response == stdout[1]

\* C4: once the account list and the position list are fetched, the response
\* is a success response whose portfolio[] holds, in the order of the
\* position list, exactly one item per position with balance > 0 and none
\* for the others, whatever the lookups of the positions did.
C4_OneItemPerHeldPosition ==
    /\ (positions.fetched /\ pc \in {"loop", "print", "done"}) =>
          LET held == Held(SubSeq(positions.securities, 1, idx - 1))
          IN  /\ Len(portfolio_items) = Len(held)
              /\ \A i \in DOMAIN held :
                    /\ portfolio_items[i].figi = held[i].figi
                    /\ portfolio_items[i].quantity = held[i].balance
    /\ (positions.fetched /\ pc \in {"print", "done"}) =>
          /\ idx = Len(positions.securities) + 1
          /\ result.success = TRUE
          /\ result.portfolio = portfolio_items
    /\ (positions.fetched /\ pc = "done") => stdout = <<result>>

\* C4 witness: of two positions the first has balance 0 and the second is
\* held; a lookup of the held one raised; the response lists one item.
C4_Witness ==
    /\ pc = "done"
    /\ positions.fetched
    /\ Len(positions.securities) = 2
    /\ positions.securities[1].balance = 0
    /\ positions.securities[2].balance > 0
    /\ raised
    /\ Response.success = TRUE
    /\ Len(Response.portfolio) = 1
    /\ Response.portfolio[1].figi = positions.securities[2].figi

\* Every instrument-type lookup was made and raised or returned null.
AllTypeLookupsFailed(l) ==
    \A call \in {"share_by", "bond_by", "etf_by"} :
        \E i \in DOMAIN l : l[i].call = call /\ l[i].kind \in {"raise", "null"}

\* C5: when the stock, bond and ETF lookups of a position all raise or
\* return null, its item is still produced, with ticker equal to the figi,
\* name "Unknown" and type "OTHER".
C5_UnclassifiedItem ==
    (ItemDone /\ AllTypeLookupsFailed(lookups)) =>
        /\ Len(portfolio_items) = Len(items_before) + 1
        /\ LET item == portfolio_items[Len(portfolio_items)]
           IN  /\ item.figi \in Figis
               /\ item.ticker = item.figi
               /\ item.name = "Unknown"
               /\ item.type = "OTHER"
        /\ pc = "done" => (Response.success = TRUE /\ Response.portfolio = portfolio_items)

\* C5 witness: the three lookups failed in three different ways and the
\* item is in the printed response.
C5_Witness ==
    /\ pc = "done"
    /\ Len(lookups) = 4
    /\ lookups[1] = [call |-> "share_by", kind |-> "raise"]
    /\ lookups[2] = [call |-> "bond_by", kind |-> "null"]
    /\ lookups[3] = [call |-> "etf_by", kind |-> "raise"]
    /\ Len(Response.portfolio) = 1
    /\ Response.portfolio[1].ticker = "F2"
    /\ Response.portfolio[1].type = "OTHER"

\* C6: when the price lookup of a position raises, its item is appended with
\* current_price 0.0 and current_value 0.0, the items of the positions
\* before it are unchanged, and the response is a success response holding
\* the items.
C6_PriceFailureIsZero ==
    (ItemDone /\ \E i \in DOMAIN lookups :
                    lookups[i] = [call |-> "get_last_prices", kind |-> "raise"]) =>
        /\ portfolio_items # <<>>
        /\ LET item == portfolio_items[Len(portfolio_items)]
           IN  /\ item.current_price = Zero
               /\ item.current_value = Zero
               /\ portfolio_items = Append(items_before, item)
        /\ pc \in {"print", "done"} => (result.success = TRUE /\ result.portfolio = portfolio_items)
        /\ pc = "done" => stdout = <<result>>

\* C6 witness: the first position was priced at 1.5, the price lookup of the
\* second raised; both items are in the printed response.
C6_Witness ==
    /\ pc = "done"
    /\ lookups # <<>>
    /\ lookups[Len(lookups)] = [call |-> "get_last_prices", kind |-> "raise"]
    /\ Response.success = TRUE
    /\ Len(Response.portfolio) = 2
    /\ Response.portfolio[1].current_price = [units |-> 1, nano |-> 500000000]
    /\ Response.portfolio[2].current_price = Zero
    /\ Response.portfolio[2].current_value = Zero

\* The sum of current_value over a list of items, taken in list order.
RECURSIVE SumOfValues(_)
SumOfValues(items) ==
    IF items = <<>> THEN Zero
    ELSE FAdd(SumOfValues(SubSeq(items, 1, Len(items) - 1)),
              items[Len(items)].current_value)

\* quantity * current_price, by the decimal expansion of the price.
Product(quantity, price) ==
    LET n == quantity * (price.nano \div 1000) IN
    FAdd([units |-> quantity * price.units + (n \div 1000000),
          nano  |-> (n % 1000000) * 1000],
         [units |-> 0, nano |-> quantity * (price.nano % 1000)])

C8_NoAccounts ==
    accounts_empty =>
        /\ pc \in {"print", "done"}
        /\ ncalls = 1
        /\ ~positions.fetched
        /\ result.success = TRUE
        /\ result.portfolio = <<>>
        /\ result.total_value = Zero
        /\ result.total_cost = Zero
        /\ result.total_pnl = Zero
        /\ result.total_pnl_percent = Zero
        /\ "account_id" \notin DOMAIN result
        /\ pc = "done" => (stdout = <<result>> /\ exitCode = 0)

\* C8 witness: the empty-account response has been printed.
C8_Witness ==
    /\ pc = "done"
    /\ IsPortfolio
    /\ accounts_empty
    /\ ncalls = 1
    /\ Response.success = TRUE
    /\ Response.portfolio = <<>>

\* The fixed order of the instrument-type lookups and the type each sets.
LookupOrder == <<"share_by", "bond_by", "etf_by">>

TypeNames == <<"STOCK", "BOND", "ETF">>

\* C9: the type lookups of a position are made in the order stock, bond,
\* ETF; a lookup that raises or returns null only leads to the next kind;
\* the first that returns an instrument sets type, ticker and name and is
\* the last lookup made for the position.
C9_FallbackOrder ==
    LET tl == TypeLookups(lookups)
        n == Len(tl)
        classified == pc = "price" \/ ItemDone
    IN  /\ n <= 3
        /\ \A i \in DOMAIN tl :
              /\ tl[i].call = LookupOrder[i]
              /\ tl[i].kind = "ok" => i = n
        /\ pc = "share" => n = 0
        /\ pc = "bond" => (n = 1 /\ tl[1].kind # "ok")
        /\ pc = "etf" => (n = 2 /\ tl[2].kind # "ok")
        /\ classified =>
              /\ n >= 1
              /\ tl[n].kind # "ok" => (n = 3 /\ instrument_type = "OTHER")
              /\ tl[n].kind = "ok" =>
                    /\ instrument_type = TypeNames[n]
                    /\ \E f \in Figis :
                          /\ ticker = InstrumentOf(f).ticker
                          /\ name = InstrumentOf(f).name
                          /\ pc = "price" => f = positions.securities[idx].figi
                          /\ ItemDone => f = portfolio_items[Len(portfolio_items)].figi
        /\ ItemDone =>
              /\ portfolio_items # <<>>
              /\ LET item == portfolio_items[Len(portfolio_items)]
                 IN  /\ item.type = instrument_type
                     /\ item.ticker = ticker
                     /\ item.name = name

\* C9 witness: the stock lookup raised, the bond lookup returned null, the
\* ETF lookup returned the instrument, and the item is of type ETF.
C9_Witness ==
    /\ ItemDone
    /\ TypeLookups(lookups) =
          <<[call |-> "share_by", kind |-> "raise"],
            [call |-> "bond_by", kind |-> "null"],
            [call |-> "etf_by", kind |-> "ok"]>>
    /\ portfolio_items[Len(portfolio_items)].type = "ETF"
    /\ portfolio_items[Len(portfolio_items)].ticker = "SBER"

\* C9 second case, reached too: the stock lookup returned the instrument
\* and no bond or ETF lookup followed.
C9_StockFirst ==
    /\ ItemDone
    /\ TypeLookups(lookups) = <<[call |-> "share_by", kind |-> "ok"]>>
    /\ portfolio_items[Len(portfolio_items)].type = "STOCK"

====
